---- MODULE Spec2Model ----
(***************************************************************************)
(* WaveshareCAN (src/waveshare_can.py): a link driver that frames CAN      *)
(* messages over a serial transport.  The model keeps the session object   *)
(* (ser, _rx_thread, _rx_running), the foreground caller, the receive      *)
(* worker threads, and the transport: the bytes the peer sends (stream,    *)
(* read position pos) and the writes the session makes (tx).               *)
(***************************************************************************)
EXTENDS Integers, Sequences, FiniteSets, TLC

VARIABLES
    ser,         \* self.ser: "none" (None), "open" (is_open), "closed"
    rx_running,  \* self._rx_running
    rx_thread,   \* self._rx_thread: 0 is None, else the id of the Thread object
    pc,          \* position of every thread: 0 is the foreground caller
    loc,         \* locals of the receive call (or worker) of every thread
    stream,      \* all the bytes the peer sends to the transport, in order
    sent,        \* the frames the peer transmitted: where each starts in stream
    pos,         \* number of bytes of stream the session has read so far
    paused,      \* some read timed out while the peer still had bytes to send
    pauses,      \* times the peer will still pause before the end of the stream
    tx,          \* the byte sequences given to ser.write, in order
    wire,        \* the bytes the transport has taken from the writes, in order
    wr,          \* for every concurrent sender, where its send() call stands
    sendLog,     \* the foreground send() calls, in order, with their outcome
    results,     \* outcome of every foreground receive() call, in order
    delivered,   \* the (can_id, data) pairs handed to the callback, in order
    lastRet,     \* the last completed foreground call and its outcome
    closedRet    \* close() has returned and no receive loop was started since

vars == <<ser, rx_running, rx_thread, pc, loc, stream, sent, pos, paused,
          pauses, tx, wire, wr, sendLog, results, delivered, lastRet,
          closedRet>>

(***************************************************************************)
(* Bounds of the model.                                                    *)
(***************************************************************************)
MaxWorkers  == 2   \* Thread objects a run may create
MaxTimeouts == 1   \* pauses of the peer before the end of the stream
MaxSends    == 1   \* foreground send() calls of a run
MaxSenders  == 2   \* callers that call send() concurrently
MaxParts    == 2   \* parts in which the transport may take one write
MaxResults  == 4   \* foreground receive() calls of a run
MaxFrames   == 2   \* frames after the prefix of a generated stream
MaxStray    == 2   \* stray bytes between two frames of a generated stream

(***************************************************************************)
(* Wire format.                                                            *)
(***************************************************************************)
START_BYTE  == 170   \* 0xAA
CMD_BYTE    == 200   \* 0xC8
TAIL_BYTE   == 85    \* 0x55
PAYLOAD_LEN == 8

Min(a, b) == IF a < b THEN a ELSE b

Zeros(n) == [i \in 1..n |-> 0]

\* str.encode('ascii'), bytes(list), bytes: the byte sequence, or the error.
ToBytes(data) ==
    CASE data.kind = "str" ->
           IF \A i \in 1..Len(data.val) : data.val[i] \in 0..127
           THEN [err |-> "", val |-> data.val]
           ELSE [err |-> "UnicodeEncodeError", val |-> <<>>]
      [] data.kind = "list" ->
           IF \A i \in 1..Len(data.val) : data.val[i] \in 0..255
           THEN [err |-> "", val |-> data.val]
           ELSE [err |-> "ValueError", val |-> <<>>]
      [] data.kind = "bytes" -> [err |-> "", val |-> data.val]
      [] OTHER -> [err |-> "TypeError", val |-> <<>>]

\* Faulty variant of Normalize: pads, but forgets to truncate a long payload.
Normalize_NoTruncate(data) ==
    IF Len(data) < PAYLOAD_LEN THEN data \o Zeros(PAYLOAD_LEN - Len(data))
    ELSE data

\* Faulty variant of Normalize: truncates, but forgets to pad a short payload.
Normalize_NoPad(data) ==
    IF Len(data) > PAYLOAD_LEN THEN SubSeq(data, 1, PAYLOAD_LEN) ELSE data

\* lines 56-59: truncate to 8 bytes or right-pad with zero bytes.
Normalize(data) ==
    IF Len(data) > PAYLOAD_LEN THEN SubSeq(data, 1, PAYLOAD_LEN)
    ELSE IF Len(data) < PAYLOAD_LEN THEN data \o Zeros(PAYLOAD_LEN - Len(data))
    ELSE data

\* Faulty variant of WireFrame: the identifier is cut to its low 11 bits.
WireFrame_Mask11(can_id, data) ==
    <<START_BYTE, CMD_BYTE, can_id % 256, (can_id \div 256) % 8>>
        \o data \o <<TAIL_BYTE>>

\* lines 61-67: the frame handed to ser.write; data is already normalised.
WireFrame(can_id, data) ==
    <<START_BYTE, CMD_BYTE, can_id % 256, (can_id \div 256) % 256>>
        \o data \o <<TAIL_BYTE>>

\* Faulty variant of DecodeId: the high byte is not shifted.
DecodeId_NoShift(idl, idh) == idl + idh

\* line 100: can_id = idl[0] | (idh[0] << 8), both single bytes.
DecodeId(idl, idh) == idl + idh * 256

(***************************************************************************)
(* Threads and the transport.                                              *)
(***************************************************************************)
Workers == 1..MaxWorkers
Threads == 0..MaxWorkers

\* Thread.is_alive(): started and not yet finished.
IsAlive(w) == pc[w] \notin {"unborn", "dead"}

\* if not self.ser or not self.ser.is_open (lines 44, 78)
NotOpen == ser # "open"

Blank == [sync |-> 0, idl |-> <<>>, idh |-> <<>>, data |-> <<>>,
          id |-> 0, end |-> 0, tmo |-> FALSE, err |-> "", empty |-> FALSE]

FrameResult(id, data, sync, end, tmo) ==
    [kind |-> "frame", id |-> id, data |-> data, msg |-> "", empty |-> FALSE,
     sync |-> sync, end |-> end, tmo |-> tmo]

ErrorResult(msg, empty, sync, end, tmo) ==
    [kind |-> "error", id |-> 0, data |-> <<>>, msg |-> msg, empty |-> empty,
     sync |-> sync, end |-> end, tmo |-> tmo]

\* ser.read(n) blocks until n bytes arrived or the timeout expired: it returns
\* the next k <= n bytes of the stream, fewer than n only after a timeout.
\* A timeout happens when the peer pauses, which is not in the session's
\* hands; once the stream is exhausted every read times out.
ReadLens(n) ==
    LET full == Min(n, Len(stream) - pos)
    IN  {full} \cup (IF pauses > 0 THEN 0..(full - 1) ELSE {})

ReadBytes(k) == SubSeq(stream, pos + 1, pos + k)

\* The effect of one ser.read(n) that returned k bytes on the transport.
\* Read n bytes and got k: the peer paused before it had sent them all.
Short(n, k) == k < Min(n, Len(stream) - pos)

Read(n, k) ==
    /\ pos' = pos + k
    /\ paused' = (paused \/ Short(n, k))
    /\ pauses' = IF Short(n, k) THEN pauses - 1 ELSE pauses

\* An exception leaves receive(): the foreground caller gets it (line 90, 98);
\* in a worker it unwinds the while loop to the except clause of
\* _receive_worker (lines 131-132) and the thread ends.
Raise(t, msg, empty, end, tmo) ==
    IF t = 0
    THEN /\ pc' = [pc EXCEPT ![0] = "idle"]
         /\ loc' = [loc EXCEPT ![0] = Blank]
         /\ results' = Append(results, ErrorResult(msg, empty, loc[0].sync, end,
                                                tmo))
         /\ lastRet' = [op |-> "receive", out |-> msg]
    ELSE /\ pc' = [pc EXCEPT ![t] = "dead"]
         /\ loc' = [loc EXCEPT ![t] = [Blank EXCEPT !.err = msg, !.empty = empty]]
         /\ UNCHANGED <<results, lastRet>>

\* return can_id, data (line 103): to the foreground caller, or to the
\* worker, which goes on to call the callback (line 130).
Return(t, id, data, end) ==
    IF t = 0
    THEN /\ pc' = [pc EXCEPT ![0] = "idle"]
         /\ loc' = [loc EXCEPT ![0] = Blank]
         /\ results' = Append(results, FrameResult(id, data, loc[0].sync, end,
                                                paused))
         /\ lastRet' = [op |-> "receive", out |-> "ok"]
    ELSE /\ pc' = [pc EXCEPT ![t] = "w_cb"]
         /\ loc' = [loc EXCEPT ![t] = [@ EXCEPT !.id = id, !.data = data,
                                                  !.end = end,
                                                  !.tmo = paused]]
         /\ UNCHANGED <<results, lastRet>>

(***************************************************************************)
(* receive(), one action per transport read (lines 72-103).                *)
(***************************************************************************)
\* Faulty variant of RecvEnter: receive() goes on to read without the check.
RecvEnter_NoCheck(t) ==
    /\ pc[t] = "r_enter"
    /\ pc' = [pc EXCEPT ![t] = "r_sync"]
    /\ UNCHANGED <<ser, rx_running, rx_thread, loc, stream, sent, pos, paused,
                   pauses, tx, wire, wr, sendLog, results, delivered, lastRet,
                   closedRet>>

\* lines 78-79
RecvEnter(t) ==
    /\ pc[t] = "r_enter"
    /\ UNCHANGED <<wire, wr, sendLog>>
    /\ IF NotOpen
       THEN Raise(t, "Serial port is not open", FALSE, pos, paused)
       ELSE /\ pc' = [pc EXCEPT ![t] = "r_sync"]
            /\ UNCHANGED <<loc, results, lastRet>>
    /\ UNCHANGED <<ser, rx_running, rx_thread, stream, sent, pos, paused, pauses,
                   tx, delivered, closedRet>>

\* Faulty variant of RecvSync: no scan, the first byte read is taken for the sentinel.
RecvSync_FirstByte(t) ==
    /\ pc[t] = "r_sync"
    /\ UNCHANGED <<wire, wr, sendLog>>
    /\ IF NotOpen
       THEN /\ Raise(t, "PortNotOpenError", FALSE, pos, paused)
            /\ UNCHANGED <<pos, paused, pauses>>
       ELSE \E k \in ReadLens(1) :
              /\ Read(1, k)
              /\ IF k = 1
                 THEN /\ pc' = [pc EXCEPT ![t] = "r_cmd"]
                      /\ loc' = [loc EXCEPT ![t] = [@ EXCEPT !.sync = pos + 1]]
                 ELSE UNCHANGED <<pc, loc>>
              /\ UNCHANGED <<results, lastRet>>
    /\ UNCHANGED <<ser, rx_running, rx_thread, stream, sent, tx, delivered,
                   closedRet>>

\* lines 81-86: one turn of the sync scan
RecvSync(t) ==
    /\ pc[t] = "r_sync"
    /\ UNCHANGED <<wire, wr, sendLog>>
    /\ IF NotOpen
       THEN /\ Raise(t, "PortNotOpenError", FALSE, pos, paused)
            /\ UNCHANGED <<pos, paused, pauses>>
       ELSE \E k \in ReadLens(1) :
              /\ Read(1, k)
              /\ IF k = 1 /\ ReadBytes(1)[1] = START_BYTE
                 THEN /\ pc' = [pc EXCEPT ![t] = "r_cmd"]
                      /\ loc' = [loc EXCEPT ![t] = [@ EXCEPT !.sync = pos + 1]]
                 ELSE UNCHANGED <<pc, loc>>
              /\ UNCHANGED <<results, lastRet>>
    /\ UNCHANGED <<ser, rx_running, rx_thread, stream, sent, tx, delivered,
                   closedRet>>

\* Faulty variant of RecvCmd: a bad command byte sends receive() back to the sync
\* scan instead of raising.
RecvCmd_Rescan(t) ==
    /\ pc[t] = "r_cmd"
    /\ UNCHANGED <<wire, wr, sendLog>>
    /\ IF NotOpen
       THEN /\ Raise(t, "PortNotOpenError", FALSE, pos, paused)
            /\ UNCHANGED <<pos, paused, pauses>>
       ELSE \E k \in ReadLens(1) :
              /\ Read(1, k)
              /\ pc' = [pc EXCEPT ![t] = IF k = 0 \/ ReadBytes(k)[1] # CMD_BYTE
                                         THEN "r_sync" ELSE "r_idl"]
              /\ UNCHANGED <<loc, results, lastRet>>
    /\ UNCHANGED <<ser, rx_running, rx_thread, stream, sent, tx, delivered,
                   closedRet>>

\* lines 88-90
RecvCmd(t) ==
    /\ pc[t] = "r_cmd"
    /\ UNCHANGED <<wire, wr, sendLog>>
    /\ IF NotOpen
       THEN /\ Raise(t, "PortNotOpenError", FALSE, pos, paused)
            /\ UNCHANGED <<pos, paused, pauses>>
       ELSE \E k \in ReadLens(1) :
              /\ Read(1, k)
              /\ IF k = 0 \/ ReadBytes(k)[1] # CMD_BYTE
                 THEN Raise(t, "Invalid CMD byte", k = 0, pos + k,
                            paused \/ Short(1, k))
                 ELSE /\ pc' = [pc EXCEPT ![t] = "r_idl"]
                      /\ UNCHANGED <<loc, results, lastRet>>
    /\ UNCHANGED <<ser, rx_running, rx_thread, stream, sent, tx, delivered,
                   closedRet>>

\* line 92
RecvIdl(t) ==
    /\ pc[t] = "r_idl"
    /\ UNCHANGED <<wire, wr, sendLog>>
    /\ IF NotOpen
       THEN /\ Raise(t, "PortNotOpenError", FALSE, pos, paused)
            /\ UNCHANGED <<pos, paused, pauses>>
       ELSE \E k \in ReadLens(1) :
              /\ Read(1, k)
              /\ pc' = [pc EXCEPT ![t] = "r_idh"]
              /\ loc' = [loc EXCEPT ![t] = [@ EXCEPT !.idl = ReadBytes(k)]]
              /\ UNCHANGED <<results, lastRet>>
    /\ UNCHANGED <<ser, rx_running, rx_thread, stream, sent, tx, delivered,
                   closedRet>>

\* line 93
RecvIdh(t) ==
    /\ pc[t] = "r_idh"
    /\ UNCHANGED <<wire, wr, sendLog>>
    /\ IF NotOpen
       THEN /\ Raise(t, "PortNotOpenError", FALSE, pos, paused)
            /\ UNCHANGED <<pos, paused, pauses>>
       ELSE \E k \in ReadLens(1) :
              /\ Read(1, k)
              /\ pc' = [pc EXCEPT ![t] = "r_data"]
              /\ loc' = [loc EXCEPT ![t] = [@ EXCEPT !.idh = ReadBytes(k)]]
              /\ UNCHANGED <<results, lastRet>>
    /\ UNCHANGED <<ser, rx_running, rx_thread, stream, sent, tx, delivered,
                   closedRet>>

\* Faulty variant of RecvData: asks for one byte too few.
RecvData_OneShort(t) ==
    /\ pc[t] = "r_data"
    /\ UNCHANGED <<wire, wr, sendLog>>
    /\ IF NotOpen
       THEN /\ Raise(t, "PortNotOpenError", FALSE, pos, paused)
            /\ UNCHANGED <<pos, paused, pauses>>
       ELSE \E k \in ReadLens(PAYLOAD_LEN - 1) :
              /\ Read(PAYLOAD_LEN - 1, k)
              /\ pc' = [pc EXCEPT ![t] = "r_tail"]
              /\ loc' = [loc EXCEPT ![t] = [@ EXCEPT !.data = ReadBytes(k)]]
              /\ UNCHANGED <<results, lastRet>>
    /\ UNCHANGED <<ser, rx_running, rx_thread, stream, sent, tx, delivered,
                   closedRet>>

\* line 94
RecvData(t) ==
    /\ pc[t] = "r_data"
    /\ UNCHANGED <<wire, wr, sendLog>>
    /\ IF NotOpen
       THEN /\ Raise(t, "PortNotOpenError", FALSE, pos, paused)
            /\ UNCHANGED <<pos, paused, pauses>>
       ELSE \E k \in ReadLens(PAYLOAD_LEN) :
              /\ Read(PAYLOAD_LEN, k)
              /\ pc' = [pc EXCEPT ![t] = "r_tail"]
              /\ loc' = [loc EXCEPT ![t] = [@ EXCEPT !.data = ReadBytes(k)]]
              /\ UNCHANGED <<results, lastRet>>
    /\ UNCHANGED <<ser, rx_running, rx_thread, stream, sent, tx, delivered,
                   closedRet>>

\* Faulty variant of RecvTail: a wrong tail byte also closes the port.
RecvTail_ClosesOnError(t) ==
    /\ pc[t] = "r_tail"
    /\ UNCHANGED <<wire, wr, sendLog>>
    /\ IF NotOpen
       THEN /\ Raise(t, "PortNotOpenError", FALSE, pos, paused)
            /\ UNCHANGED <<ser, pos, paused, pauses>>
       ELSE \E k \in ReadLens(1) :
              /\ Read(1, k)
              /\ IF k = 0 \/ ReadBytes(k)[1] # TAIL_BYTE
                 THEN /\ Raise(t, "Invalid tail byte", k = 0, pos + k,
                               paused \/ Short(1, k))
                      /\ ser' = "closed"
                 ELSE IF loc[t].idl = <<>> \/ loc[t].idh = <<>>
                 THEN /\ Raise(t, "IndexError", TRUE, pos + k, paused)
                      /\ ser' = ser
                 ELSE /\ Return(t, DecodeId(loc[t].idl[1], loc[t].idh[1]),
                                loc[t].data, pos + k)
                      /\ ser' = ser
    /\ UNCHANGED <<rx_running, rx_thread, stream, sent, tx, delivered,
                   closedRet>>

\* lines 95-103
RecvTail(t) ==
    /\ pc[t] = "r_tail"
    /\ UNCHANGED <<wire, wr, sendLog>>
    /\ IF NotOpen
       THEN /\ Raise(t, "PortNotOpenError", FALSE, pos, paused)
            /\ UNCHANGED <<pos, paused, pauses>>
       ELSE \E k \in ReadLens(1) :
              /\ Read(1, k)
              /\ IF k = 0 \/ ReadBytes(k)[1] # TAIL_BYTE
                 THEN Raise(t, "Invalid tail byte", k = 0, pos + k,
                            paused \/ Short(1, k))
                 ELSE IF loc[t].idl = <<>> \/ loc[t].idh = <<>>
                 THEN Raise(t, "IndexError", TRUE, pos + k, paused)
                 ELSE Return(t, DecodeId(loc[t].idl[1], loc[t].idh[1]),
                             loc[t].data, pos + k)
    /\ UNCHANGED <<ser, rx_running, rx_thread, stream, sent, tx, delivered,
                   closedRet>>

(***************************************************************************)
(* The foreground caller: open, close, send, receive, start_receive_loop.  *)
(***************************************************************************)
\* lines 23-26
Open ==
    /\ pc[0] = "idle"
    /\ UNCHANGED <<wire, wr, sendLog>>
    /\ ser' = "open"
    /\ lastRet' = [op |-> "open", out |-> "ok"]
    /\ UNCHANGED <<rx_running, rx_thread, pc, loc, stream, sent, pos, paused, pauses,
                   tx, results, delivered, closedRet>>

\* line 30: the stop flag
CloseCall ==
    /\ pc[0] = "idle"
    /\ UNCHANGED <<wire, wr, sendLog>>
    /\ rx_running' = FALSE
    /\ pc' = [pc EXCEPT ![0] = "close_join"]
    /\ UNCHANGED <<ser, rx_thread, loc, stream, sent, pos, paused, pauses, tx,
                   results, delivered, lastRet, closedRet>>

\* Faulty variant of CloseJoin: close() does not wait for the thread.
CloseJoin_NoWait ==
    /\ pc[0] = "close_join"
    /\ UNCHANGED <<wire, wr, sendLog>>
    /\ pc' = [pc EXCEPT ![0] = "close_ser"]
    /\ UNCHANGED <<ser, rx_running, rx_thread, loc, stream, sent, pos,
                   paused, pauses, tx, results, delivered, lastRet, closedRet>>

\* lines 31-32: join() returns once the thread is no longer alive
CloseJoin ==
    /\ pc[0] = "close_join"
    /\ UNCHANGED <<wire, wr, sendLog>>
    /\ rx_thread = 0 \/ ~IsAlive(rx_thread)
    /\ pc' = [pc EXCEPT ![0] = "close_ser"]
    /\ UNCHANGED <<ser, rx_running, rx_thread, loc, stream, sent, pos,
                   paused, pauses, tx, results, delivered, lastRet, closedRet>>

\* Faulty variant of CloseSer: the transport is closed without looking at it.
CloseSer_NoGuard ==
    /\ pc[0] = "close_ser"
    /\ UNCHANGED <<wire, wr, sendLog>>
    /\ ser' = "closed"
    /\ pc' = [pc EXCEPT ![0] = "idle"]
    /\ lastRet' = [op |-> "close", out |-> "closed"]
    /\ closedRet' = TRUE
    /\ UNCHANGED <<rx_running, rx_thread, loc, stream, sent, pos, paused, pauses,
                   tx, results, delivered>>

\* lines 33-35
CloseSer ==
    /\ pc[0] = "close_ser"
    /\ UNCHANGED <<wire, wr, sendLog>>
    /\ ser' = IF ser = "open" THEN "closed" ELSE ser
    /\ pc' = [pc EXCEPT ![0] = "idle"]
    /\ lastRet' = [op |-> "close",
                   out |-> IF ser = "open" THEN "closed" ELSE "no-op"]
    /\ closedRet' = TRUE
    /\ UNCHANGED <<rx_running, rx_thread, loc, stream, sent, pos, paused, pauses,
                   tx, results, delivered>>

\* lines 37-70
Send(can_id, data) ==
    /\ pc[0] = "idle"
    /\ Len(sendLog) < MaxSends
    /\ IF NotOpen
       THEN /\ lastRet' = [op |-> "send", out |-> "Serial port is not open"]
            /\ UNCHANGED <<tx, wire>>
       ELSE IF ToBytes(data).err # ""
       THEN /\ lastRet' = [op |-> "send", out |-> ToBytes(data).err]
            /\ UNCHANGED <<tx, wire>>
       ELSE /\ tx' = Append(tx, WireFrame(can_id, Normalize(ToBytes(data).val)))
            /\ wire' = wire \o WireFrame(can_id, Normalize(ToBytes(data).val))
            /\ lastRet' = [op |-> "send", out |-> "ok"]
    /\ sendLog' = Append(sendLog, [id |-> can_id, data |-> data,
                                   out |-> lastRet'.out, n |-> Len(tx')])
    /\ UNCHANGED <<ser, rx_running, rx_thread, pc, loc, stream, sent, pos,
                   paused, pauses, wr, results, delivered, closedRet>>

\* a foreground call of receive() (line 72)
ReceiveCall ==
    /\ pc[0] = "idle"
    /\ UNCHANGED <<wire, wr, sendLog>>
    /\ Len(results) < MaxResults
    /\ pc' = [pc EXCEPT ![0] = "r_enter"]
    /\ UNCHANGED <<ser, rx_running, rx_thread, loc, stream, sent, pos,
                   paused, pauses, tx, results, delivered, lastRet, closedRet>>

\* The Thread objects not yet created.
Unborn == {w \in Workers : pc[w] = "unborn"}

\* Faulty variant of StartReceiveLoop: no check for a running thread.
StartReceiveLoop_NoCheck ==
    /\ pc[0] = "idle"
    /\ UNCHANGED <<wire, wr, sendLog>>
    /\ Unborn # {}
    /\ LET w == CHOOSE x \in Unborn : \A y \in Unborn : x <= y
       IN  /\ rx_running' = TRUE
           /\ rx_thread' = w
           /\ pc' = [pc EXCEPT ![w] = "w_loop"]
    /\ lastRet' = [op |-> "start_receive_loop", out |-> "started"]
    /\ closedRet' = FALSE
    /\ UNCHANGED <<ser, loc, stream, sent, pos, paused, pauses, tx, results,
                   delivered>>

\* lines 105-123
StartReceiveLoop ==
    /\ pc[0] = "idle"
    /\ UNCHANGED <<wire, wr, sendLog>>
    /\ IF rx_thread # 0 /\ IsAlive(rx_thread)
       THEN /\ lastRet' = [op |-> "start_receive_loop", out |-> "already running"]
            /\ UNCHANGED <<rx_running, rx_thread, pc, closedRet>>
       ELSE /\ Unborn # {}
            /\ LET w == CHOOSE x \in Unborn : \A y \in Unborn : x <= y
               IN  /\ rx_running' = TRUE
                   /\ rx_thread' = w
                   /\ pc' = [pc EXCEPT ![w] = "w_loop"]
            /\ lastRet' = [op |-> "start_receive_loop", out |-> "started"]
            /\ closedRet' = FALSE
    /\ UNCHANGED <<ser, loc, stream, sent, pos, paused, pauses, tx, results,
                   delivered>>

(***************************************************************************)
(* _receive_worker (lines 125-132).                                        *)
(***************************************************************************)
\* line 128: while self._rx_running
WorkerLoop(w) ==
    /\ pc[w] = "w_loop"
    /\ UNCHANGED <<wire, wr, sendLog>>
    /\ pc' = [pc EXCEPT ![w] = IF rx_running THEN "r_enter" ELSE "dead"]
    /\ UNCHANGED <<ser, rx_running, rx_thread, loc, stream, sent, pos,
                   paused, pauses, tx, results, delivered, lastRet, closedRet>>

\* Faulty variant of WorkerCallback: a frame received while close() lowers
\* the flag is dropped instead of being passed to the callback.
WorkerCallback_SkipWhenStopped(w) ==
    /\ pc[w] = "w_cb"
    /\ UNCHANGED <<wire, wr, sendLog>>
    /\ delivered' = IF rx_running
                    THEN Append(delivered,
                                FrameResult(loc[w].id, loc[w].data, loc[w].sync,
                                            loc[w].end, loc[w].tmo))
                    ELSE delivered
    /\ pc' = [pc EXCEPT ![w] = "w_loop"]
    /\ loc' = [loc EXCEPT ![w] = Blank]
    /\ UNCHANGED <<ser, rx_running, rx_thread, stream, sent, pos, paused, pauses,
                   tx, results, lastRet, closedRet>>

\* line 130: callback(can_id, data)
WorkerCallback(w) ==
    /\ pc[w] = "w_cb"
    /\ UNCHANGED <<wire, wr, sendLog>>
    /\ delivered' = Append(delivered,
                           FrameResult(loc[w].id, loc[w].data, loc[w].sync,
                                       loc[w].end, loc[w].tmo))
    /\ pc' = [pc EXCEPT ![w] = "w_loop"]
    /\ loc' = [loc EXCEPT ![w] = Blank]
    /\ UNCHANGED <<ser, rx_running, rx_thread, stream, sent, pos, paused, pauses,
                   tx, results, lastRet, closedRet>>

(***************************************************************************)
(* Callers that call send() at the same time.  ser.write hands the frame   *)
(* to the transport, which takes it in one or more parts (write returns    *)
(* the count taken and is retried for the rest); nothing in send() keeps   *)
(* a second caller from writing in between.                                *)
(***************************************************************************)
Senders == 1..MaxSenders

NotCalled == [st |-> "idle", rest |-> <<>>, parts |-> 0]

\* lines 37-67 in a concurrent caller, up to the call of ser.write
SenderCall(s, can_id, data) ==
    /\ wr[s].st = "idle"
    /\ IF NotOpen \/ ToBytes(data).err # ""
       THEN /\ wr' = [wr EXCEPT ![s] = [st |-> "done", rest |-> <<>>, parts |-> 0]]
            /\ tx' = tx
       ELSE /\ tx' = Append(tx, WireFrame(can_id, Normalize(ToBytes(data).val)))
            /\ wr' = [wr EXCEPT ![s] =
                         [st |-> "writing", parts |-> 0,
                          rest |-> WireFrame(can_id, Normalize(ToBytes(data).val))]]
    /\ UNCHANGED <<ser, rx_running, rx_thread, pc, loc, stream, sent, pos,
                   paused, pauses, wire, sendLog, results, delivered, lastRet,
                   closedRet>>

\* line 69: the transport takes the next part of the frame
SenderWrite(s) ==
    /\ wr[s].st = "writing"
    /\ \E n \in 1..Len(wr[s].rest) :
          /\ n = Len(wr[s].rest) \/ wr[s].parts + 1 < MaxParts
          /\ wire' = wire \o SubSeq(wr[s].rest, 1, n)
          /\ wr' = [wr EXCEPT ![s] =
                       IF n = Len(wr[s].rest)
                       THEN [st |-> "done", rest |-> <<>>, parts |-> 0]
                       ELSE [st |-> "writing", parts |-> wr[s].parts + 1,
                             rest |-> SubSeq(wr[s].rest, n + 1, Len(wr[s].rest))]]
    /\ UNCHANGED <<ser, rx_running, rx_thread, pc, loc, stream, sent, pos,
                   paused, pauses, tx, sendLog, results, delivered, lastRet,
                   closedRet>>

\* One step of receive() in thread t.
Receive(t) ==
    \/ RecvEnter(t)
    \/ RecvSync(t)
    \/ RecvCmd(t)
    \/ RecvIdl(t)
    \/ RecvIdh(t)
    \/ RecvData(t)
    \/ RecvTail(t)

WorkerStep(w) == WorkerLoop(w) \/ Receive(w) \/ WorkerCallback(w)

(***************************************************************************)
(* The peer.  A script is what the peer puts on the line: frames it        *)
(* encodes the way send() does, and raw bytes (line noise, the rest of a   *)
(* frame cut by a late connection).                                        *)
(***************************************************************************)
Frame(id, payload) == [frame |-> TRUE, id |-> id, payload |-> payload, raw |-> <<>>]
Raw(bytes) == [frame |-> FALSE, id |-> 0, payload |-> <<>>, raw |-> bytes]

ItemBytes(it) ==
    IF it.frame THEN WireFrame(it.id, Normalize(it.payload)) ELSE it.raw

RECURSIVE Flatten(_)
Flatten(sc) ==
    IF sc = <<>> THEN <<>> ELSE ItemBytes(Head(sc)) \o Flatten(Tail(sc))

\* The transmitted frames of a script, each with the index of its first byte.
RECURSIVE FramesAt(_, _)
FramesAt(sc, off) ==
    IF sc = <<>> THEN <<>>
    ELSE (IF Head(sc).frame
          THEN <<[at |-> off + 1, id |-> Head(sc).id, payload |-> Head(sc).payload]>>
          ELSE <<>>)
         \o FramesAt(Tail(sc), off + Len(ItemBytes(Head(sc))))

\* Identifiers and payloads the peer uses.
Hello == <<72, 69, 76, 76, 79>>                            \* b"HELLO"
Tricky == <<TAIL_BYTE, START_BYTE, CMD_BYTE, 1, 2, 3, 4, 5>> \* sentinels as data
Marks == <<START_BYTE, TAIL_BYTE, START_BYTE, START_BYTE, 0, CMD_BYTE,
           TAIL_BYTE, START_BYTE>>
PeerIds == {0, 862, 2047, 170, 1365, 456}  \* 0x35E, 0x7FF, 0x0AA, 0x555, 0x1C8
PeerPatterns == {Hello \o <<0, 9, 255>>, Tricky, Marks}

\* One frame, every identifier with every payload length 0..8.
SingleFrameScripts ==
    {<<Frame(id, SubSeq(p, 1, n))>> :
        id \in PeerIds, p \in PeerPatterns, n \in 0..PAYLOAD_LEN}

\* What may precede the first whole frame.
BadTail == SubSeq(WireFrame(291, Normalize(Hello)), 1, 12) \o <<0>>
Prefixes ==
    { <<>>, <<0>>, <<START_BYTE>>, <<START_BYTE, 0>>, <<START_BYTE, CMD_BYTE>>,
      SubSeq(WireFrame(2047, Tricky), 6, 13), BadTail,
      <<CMD_BYTE, TAIL_BYTE, START_BYTE, START_BYTE>> }

StreamFrames == {Frame(862, Hello), Frame(2047, Tricky), Frame(170, <<START_BYTE, TAIL_BYTE>>)}

\* Stray bytes between frames: none of them is the start sentinel.
StrayPatterns == {<<0>>, <<CMD_BYTE, TAIL_BYTE>>, <<TAIL_BYTE, 0, CMD_BYTE>>}
Stray(p, n) == [i \in 1..n |-> p[((i - 1) % Len(p)) + 1]]
Strays == {Stray(p, n) : p \in StrayPatterns, n \in 0..MaxStray}

RECURSIVE Interleave(_, _)
Interleave(fs, gap) ==
    IF Len(fs) <= 1 THEN fs
    ELSE <<Head(fs)>> \o (IF gap = <<>> THEN <<>> ELSE <<Raw(gap)>>)
         \o Interleave(Tail(fs), gap)

FrameSeqs == UNION {[1..n -> StreamFrames] : n \in 1..MaxFrames}

\* A prefix, then frames, the same stray bytes between each two of them.
MultiFrameScripts ==
    {(IF pre = <<>> THEN <<>> ELSE <<Raw(pre)>>) \o Interleave(fs, gap) :
        pre \in Prefixes, fs \in FrameSeqs, gap \in Strays}

CodecScripts == SingleFrameScripts \cup MultiFrameScripts

\* The streams of the session runs: a silent peer, two frames, a bad command
\* byte before a frame, a bad tail byte before a frame.
SessionScripts ==
    { <<>>,
      <<Frame(862, Hello), Frame(2047, Tricky)>>,
      <<Raw(<<0, START_BYTE, 0>>), Frame(862, Hello)>>,
      <<Raw(BadTail), Frame(862, Hello)>> }

\* The arguments of send().
Payloads ==
    {[kind |-> "bytes", val |-> SubSeq(p \o <<7, 8>>, 1, n)] :
        p \in {Tricky}, n \in 0..(PAYLOAD_LEN + 2)}
    \cup {[kind |-> "str", val |-> Hello], [kind |-> "str", val |-> <<72, 233>>],
          [kind |-> "list", val |-> <<1, 2, 3>>], [kind |-> "list", val |-> <<1, 256>>],
          [kind |-> "other", val |-> <<>>]}
SendIds == {0, 862, 2047, 2048, 70494, 65535}  \* 0x800, 0x1135E, 0xFFFF

(***************************************************************************)
(* Specifications.                                                         *)
(***************************************************************************)
\* __init__ (lines 15-21), facing a peer that plays script sc and pauses
\* p times before the end of it.
InitWith(sc, p) ==
    /\ ser = "none"
    /\ rx_running = FALSE
    /\ rx_thread = 0
    /\ pc = [t \in Threads |-> IF t = 0 THEN "idle" ELSE "unborn"]
    /\ loc = [t \in Threads |-> Blank]
    /\ stream = Flatten(sc)
    /\ sent = FramesAt(sc, 0)
    /\ pos = 0
    /\ paused = FALSE
    /\ pauses = p
    /\ tx = <<>>
    /\ wire = <<>>
    /\ wr = [s \in Senders |-> NotCalled]
    /\ sendLog = <<>>
    /\ results = <<>>
    /\ delivered = <<>>
    /\ lastRet = [op |-> "init", out |-> "ok"]
    /\ closedRet = FALSE

\* The session with its worker threads.
Init == \E sc \in SessionScripts, p \in 0..MaxTimeouts : InitWith(sc, p)

Next ==
    \/ Open
    \/ CloseCall
    \/ CloseJoin
    \/ CloseSer
    \/ \E id \in {862}, d \in {[kind |-> "str", val |-> Hello]} : Send(id, d)
    \/ StartReceiveLoop
    \/ \E w \in Workers : WorkerStep(w)

Spec == Init /\ [][Next]_vars

\* Synchronous use from one thread: receive() over every stream of a peer
\* that never pauses, and over the session streams of a peer that does.
CodecInit ==
    \/ \E sc \in CodecScripts : InitWith(sc, 0)
    \/ \E sc \in SessionScripts, p \in 1..MaxTimeouts : InitWith(sc, p)

CodecNext ==
    \/ Open
    \/ ReceiveCall
    \/ Receive(0)

CodecSpec == CodecInit /\ [][CodecNext]_vars

\* send() over all its arguments.
SendInit == InitWith(<<>>, 0)

SendNext ==
    \/ Open
    \/ CloseCall
    \/ CloseJoin
    \/ CloseSer
    \/ \E id \in SendIds, d \in Payloads : Send(id, d)

SendSpec == SendInit /\ [][SendNext]_vars

\* The session under the scheduler: a thread that can take a step is not
\* starved, and a caller inside close() goes on with it.
Fairness ==
    /\ WF_vars(CloseJoin)
    /\ WF_vars(CloseSer)
    /\ \A w \in Workers : WF_vars(WorkerStep(w))

LiveSpec == Init /\ [][Next]_vars /\ Fairness

\* One caller that opens, sends, receives and closes, without a worker.
ApiNext ==
    \/ Open
    \/ CloseCall
    \/ CloseJoin
    \/ CloseSer
    \/ \E id \in {862}, d \in {[kind |-> "str", val |-> Hello]} : Send(id, d)
    \/ ReceiveCall
    \/ Receive(0)

ApiSpec == Init /\ [][ApiNext]_vars

\* A caller that calls receive() itself while the receive loop may be running,
\* facing two back-to-back frames and no read timeout.
RaceInit == InitWith(<<Frame(862, Hello), Frame(2047, Tricky)>>, 0)

RaceNext ==
    \/ Open
    \/ StartReceiveLoop
    \/ ReceiveCall
    \/ Receive(0)
    \/ \E w \in Workers : WorkerStep(w)

RaceSpec == RaceInit /\ [][RaceNext]_vars

\* Several callers that call send() at the same time on the open session.
SendersNext ==
    \/ Open
    \/ \E s \in Senders, id \in {862, 2047}, d \in {[kind |-> "str", val |-> Hello]} :
          SenderCall(s, id, d)
    \/ \E s \in Senders : SenderWrite(s)

SendersSpec == SendInit /\ [][SendersNext]_vars

\* The adapter in loopback: a frame written by send() comes back, whole and
\* unchanged, as the bytes receive() reads.
Echo ==
    /\ Len(sent) < Len(tx)
    /\ LET n == Len(sent) + 1
           e == CHOOSE e \in {sendLog[i] : i \in 1..Len(sendLog)} :
                    e.out = "ok" /\ e.n = n
       IN  /\ stream' = stream \o tx[n]
           /\ sent' = Append(sent, [id |-> e.id, payload |-> ToBytes(e.data).val,
                                    at |-> Len(stream) + 1])
    /\ UNCHANGED <<ser, rx_running, rx_thread, pc, loc, pos, paused, pauses,
                   tx, wire, wr, sendLog, results, delivered, lastRet,
                   closedRet>>

\* The payloads sent in loopback: shorter than, equal to and longer than 8 bytes.
LoopPayloads ==
    {[kind |-> "str", val |-> Hello], [kind |-> "bytes", val |-> Tricky],
     [kind |-> "bytes", val |-> Tricky \o <<7, 8>>]}

\* send() over every identifier, read back by receive().
LoopNext ==
    \/ Open
    \/ \E id \in SendIds, d \in LoopPayloads : Send(id, d)
    \/ Echo
    \/ ReceiveCall
    \/ Receive(0)

LoopSpec == SendInit /\ [][LoopNext]_vars

(***************************************************************************)
(* Vocabulary of the properties.                                           *)
(***************************************************************************)
\* The outcomes of the foreground receive() calls that read the transport.
Decoded == SelectSeq(results, LAMBDA r : r.msg # "Serial port is not open")

\* A payload right-padded with zero bytes to 8 bytes.
ZeroPadded(p) == [i \in 1..8 |-> IF i <= Len(p) THEN p[i] ELSE 0]

\* Result r is the transmitted frame f, read from its first to its last byte.
IsFrame(r, f) ==
    /\ r.kind = "frame"
    /\ r.id = f.id
    /\ r.data = ZeroPadded(f.payload)
    /\ r.sync = f.at
    /\ r.end = f.at + 12

Aligned(r) == \E j \in 1..Len(sent) : IsFrame(r, sent[j])

\* The indexes after p at which the stream holds a start sentinel.
StartsAfter(p) == {n \in (p + 1)..Len(stream) : stream[n] = START_BYTE}

\* The stream is a whole frame, stray bytes without a start sentinel, a frame.
FrameStrayFrame ==
    /\ Len(sent) >= 2
    /\ sent[1].at = 1
    /\ sent[2].at > 14
    /\ \A n \in 14..(sent[2].at - 1) : stream[n] # START_BYTE

\* C1: a frame written by send(id, payload), id in 0..0x7FF and payload of
\* 0 to 8 bytes, read back by receive() without a read timeout, is returned as
\* (id, payload right-padded with zero bytes to 8 bytes).
C1_RoundTrip ==
    (Len(sent) >= 1 /\ sent[1].at = 1 /\ Len(Decoded) >= 1 /\ ~Decoded[1].tmo)
        => /\ Decoded[1].kind = "frame"
           /\ Decoded[1].id = sent[1].id
           /\ Decoded[1].data = ZeroPadded(sent[1].payload)

C1_Witness ==
    /\ Len(sent) = 1
    /\ sent[1].payload = <<TAIL_BYTE, START_BYTE, CMD_BYTE>>
    /\ sent[1].id = 2047
    /\ Len(Decoded) = 1
    /\ Decoded[1].kind = "frame"
    /\ Decoded[1].data = <<TAIL_BYTE, START_BYTE, CMD_BYTE, 0, 0, 0, 0, 0>>

\* C2 as stated: every wire frame send() writes is exactly 12 bytes long.
C2_Orig == \A i \in 1..Len(tx) : Len(tx[i]) = 12

\* C2 amended: every wire frame send() writes is exactly 13 bytes long (two
\* header bytes, two identifier bytes, eight payload bytes, the tail byte).
C2_FrameIs13Bytes == \A i \in 1..Len(tx) : Len(tx[i]) = 13

C2_Witness == Len(tx) >= 1 /\ tx[1][4] = 255 /\ tx[1][12] = 5

\* C3: on a stream made of a frame, stray bytes none of which is 0xAA, and a
\* second frame, two receive() calls return the first and then the second
\* frame; the stray bytes are skipped by the sync scan without an error.
C3_Resync ==
    (FrameStrayFrame /\ Len(Decoded) >= 2 /\ ~Decoded[2].tmo)
        => /\ IsFrame(Decoded[1], sent[1])
           /\ IsFrame(Decoded[2], sent[2])

C3_Witness ==
    /\ FrameStrayFrame
    /\ sent[2].at = 14 + MaxStray
    /\ stream[14] = CMD_BYTE
    /\ Len(Decoded) = 2
    /\ Decoded[2].kind = "frame"

\* The first start sentinel of the stream is followed by a byte other than 0xC8.
BadHeaderFirst ==
    /\ StartsAfter(0) # {}
    /\ LET s == CHOOSE n \in StartsAfter(0) : \A m \in StartsAfter(0) : n <= m
       IN  s < Len(stream) /\ stream[s + 1] # CMD_BYTE

\* C4: when the byte after a start sentinel is not 0xC8, receive() reports
\* the invalid command having read just that byte (it does not go back to the
\* sync scan), and when the next 0xAA of the stream begins a transmitted frame
\* the next receive() returns that frame.
C4_InvalidCommand ==
    /\ (BadHeaderFirst /\ Len(Decoded) >= 1 /\ ~Decoded[1].tmo)
          => /\ Decoded[1].kind = "error"
             /\ Decoded[1].msg = "Invalid CMD byte"
    /\ \A i \in 1..Len(Decoded) :
          (Decoded[i].msg = "Invalid CMD byte" /\ ~Decoded[i].tmo)
            => /\ Decoded[i].end = Decoded[i].sync + 1
               /\ \A j \in 1..Len(sent) :
                     ( /\ sent[j].at \in StartsAfter(Decoded[i].end)
                       /\ \A n \in StartsAfter(Decoded[i].end) : sent[j].at <= n
                       /\ Len(Decoded) > i /\ ~Decoded[i + 1].tmo )
                        => IsFrame(Decoded[i + 1], sent[j])

C4_Witness ==
    /\ Len(stream) >= 2 /\ stream[1] = START_BYTE /\ stream[2] = 0
    /\ Len(Decoded) = 2
    /\ Decoded[1].msg = "Invalid CMD byte"
    /\ Decoded[2].kind = "frame" /\ Decoded[2].sync = 3

FramingErrors == {"Invalid CMD byte", "Invalid tail byte"}

\* C5 as stated: a framing error raised by receive() in the receive loop is
\* swallowed and the loop goes on, so a worker that met an invalid command or
\* tail byte in the stream is still running.
C5_Claim ==
    \A w \in Workers :
        (loc[w].err \in FramingErrors /\ ~loc[w].empty) => IsAlive(w)

AliveWorkers == {w \in Workers : IsAlive(w)}

\* C6: at most one receive worker is alive at any time, and a call of
\* start_receive_loop made while a worker is alive reports "already running"
\* and changes neither the threads nor the session's thread and flag.
C6_SingleWorker ==
    /\ [](Cardinality(AliveWorkers) <= 1)
    /\ [][(AliveWorkers # {} /\ lastRet' # lastRet
              /\ lastRet'.op = "start_receive_loop")
            => /\ lastRet'.out = "already running"
               /\ UNCHANGED <<rx_thread, rx_running, pc>>]_vars

C6_Witness ==
    /\ pc[1] = "dead"
    /\ IsAlive(2)
    /\ rx_thread = 2
    /\ lastRet = [op |-> "start_receive_loop", out |-> "already running"]

\* C7 as stated: close() called while the worker is running eventually returns
\* with the transport released, also when the peer sends nothing more.
C7_Claim ==
    (pc[0] = "close_join" /\ AliveWorkers # {})
        ~> (pc[0] = "idle" /\ ser # "open")

InClose == pc[0] \in {"close_join", "close_ser"}

\* C8: close() sets the stop flag first, then waits for the worker, then
\* closes the transport: the flag is down while close() waits, the transport is
\* closed only in a state where no worker is alive, and once close() has
\* returned no worker runs and the callback is not invoked.
C8_ShutdownOrder ==
    /\ [](InClose => ~rx_running)
    /\ [](pc[0] = "close_ser" => AliveWorkers = {})
    /\ [](closedRet => AliveWorkers = {})
    /\ [][(ser = "open" /\ ser' # "open") => (AliveWorkers = {} /\ ~rx_running)]_vars
    /\ [][closedRet => delivered' = delivered]_vars

C8_Witness ==
    /\ closedRet
    /\ ser = "closed"
    /\ pc[1] = "dead"
    /\ Len(delivered) = 1
    /\ pc[0] = "idle"

\* C9 as stated: no receive() call reports an error because a read timed
\* out with zero bytes, wherever in the frame the read is.
C9_Claim == \A i \in 1..Len(results) : ~results[i].empty

\* The stream is a prefix followed by back-to-back frames up to its end.
BackToBack ==
    /\ Len(sent) >= 2
    /\ \A j \in 2..Len(sent) : sent[j].at = sent[j - 1].at + 13
    /\ sent[Len(sent)].at + 12 = Len(stream)

AllFramesEqual ==
    \A i, j \in 1..Len(sent) :
        sent[i].id = sent[j].id /\ sent[i].payload = sent[j].payload

\* receive() has read the whole stream and waits in the sync scan for more.
Exhausted == pos = Len(stream) /\ pc[0] = "r_sync"

\* No payload holds 0xAA immediately followed by 0xC8.
NoHeaderInPayload ==
    \A j \in 1..Len(sent) :
        LET d == Normalize(sent[j].payload)
        IN  \A n \in 1..(Len(d) - 1) : ~(d[n] = START_BYTE /\ d[n + 1] = CMD_BYTE)

\* C10 as stated, on a stream that repeats one frame: by the time receive() has
\* read all the frames it has returned one of them as transmitted.
C10_Orig ==
    (BackToBack /\ AllFramesEqual /\ Exhausted /\ ~paused)
        => \E i \in 1..Len(Decoded) : Aligned(Decoded[i])

\* C10 amended: when no read times out and no payload holds 0xAA immediately
\* followed by 0xC8, receive() has returned a transmitted frame by the time it
\* has read all the frames; and, whatever the payloads, once it has returned a
\* transmitted frame every later call returns a transmitted frame.
C10_Realigns ==
    /\ (BackToBack /\ NoHeaderInPayload /\ Exhausted /\ ~paused)
          => \E i \in 1..Len(Decoded) : Aligned(Decoded[i])
    /\ BackToBack
          => \A i, j \in 1..Len(Decoded) :
                (i < j /\ Aligned(Decoded[i]) /\ ~Decoded[j].tmo)
                    => Aligned(Decoded[j])

C10_Witness ==
    /\ BackToBack /\ NoHeaderInPayload /\ Exhausted /\ ~paused
    /\ sent[1].at = 3
    /\ stream[1] = START_BYTE /\ stream[2] = CMD_BYTE
    /\ Len(Decoded) = 2
    /\ Decoded[1].kind = "error"
    /\ Aligned(Decoded[2])


\* A call that ended in a framing error on a byte it read (not on a read that
\* came back empty): result i of the foreground calls.
FailedOnByte(i) ==
    /\ results[i].kind = "error"
    /\ results[i].msg \in FramingErrors
    /\ ~results[i].empty

\* C11: when a receive() call fails a validation (command or tail byte), every
\* transmitted frame whose start sentinel lies at or after the byte that failed
\* is returned by a later receive() call: by the time the whole stream has been
\* read without a read timeout, a later result is that frame.
C11_Claim ==
    (Exhausted /\ ~paused)
        => \A i \in 1..Len(results), j \in 1..Len(sent) :
              (FailedOnByte(i) /\ sent[j].at >= results[i].end)
                  => \E k \in (i + 1)..Len(results) : IsFrame(results[k], sent[j])


\* The foreground send() calls that wrote a frame.
Written == {i \in 1..Len(sendLog) : sendLog[i].out = "ok"}

\* The results of receive() that are the echo of the frame of send() call i.
EchoOf(i) ==
    {k \in 1..Len(results) :
        /\ results[k].kind = "frame"
        /\ sendLog[i].n <= Len(sent)
        /\ results[k].sync = sent[sendLog[i].n].at}

\* C12 as stated: the identifier is cut to its low 11 bits, so that IDH has
\* only its low 3 bits set and receive() recovers id mod 0x800.
C12_Orig ==
    \A i \in Written :
        /\ tx[sendLog[i].n][4] < 8
        /\ \A k \in EchoOf(i) : results[k].id = sendLog[i].id % 2048

\* C12 amended: the identifier is cut to its low 16 bits: IDL and IDH written
\* by send() are the low and the high byte of id mod 0x10000, and receive()
\* recovers id mod 0x10000 from that frame.
C12_Low16 ==
    \A i \in Written :
        /\ tx[sendLog[i].n][3] = sendLog[i].id % 256
        /\ tx[sendLog[i].n][4] = (sendLog[i].id % 65536) \div 256
        /\ \A k \in EchoOf(i) : results[k].id = sendLog[i].id % 65536

\* receive() has returned the echo of a frame sent with a 17-bit identifier.
C12_Witness ==
    \E i \in Written : sendLog[i].id > 65535 /\ EchoOf(i) # {}


\* C13: the payload section of a frame written by send() is exactly 8 bytes
\* between the 4 header bytes and the tail: byte k of it is byte k of the input
\* where the input has one and zero elsewhere (the first 8 bytes of a longer
\* input, a shorter input followed by zeros); and a payload that converts to
\* bytes makes send() fail at no length, the only failure left being a session
\* that is not open.
C13_PayloadSection ==
    \A i \in 1..Len(sendLog) :
        LET e == sendLog[i]
            d == ToBytes(e.data)
        IN  /\ d.err = "" => e.out \in {"ok", "Serial port is not open"}
            /\ e.out = "ok" =>
                  /\ Len(tx[e.n]) = 4 + 8 + 1
                  /\ tx[e.n][13] = TAIL_BYTE
                  /\ \A k \in 1..8 :
                        tx[e.n][4 + k] = IF k <= Len(d.val) THEN d.val[k] ELSE 0

\* send() has written a frame for a 10-byte payload.
C13_Witness ==
    \E i \in Written : Len(sendLog[i].data.val) = 10 /\ Len(tx[sendLog[i].n]) = 13


\* What a call can change of the session and of its transport.
SessionState == <<ser, rx_running, rx_thread, pos, paused, pauses, tx, wire>>

Last(q) == q[Len(q)]

\* C14: on a session that is not open (never opened, or closed), send() and
\* receive() fail with the not-open error, read and write nothing, and leave
\* the session as it was.
C14_NotOpen ==
    [][/\ (NotOpen /\ sendLog' # sendLog)
            => /\ Last(sendLog').out = "Serial port is not open"
               /\ UNCHANGED SessionState
       /\ (NotOpen /\ pc[0] = "idle" /\ pc'[0] = "r_enter")
            => UNCHANGED SessionState
       /\ (NotOpen /\ pc[0] = "r_enter" /\ pc'[0] # "r_enter")
            => /\ pc'[0] = "idle"
               /\ Len(results') = Len(results) + 1
               /\ Last(results').kind = "error"
               /\ Last(results').msg = "Serial port is not open"
               /\ UNCHANGED SessionState]_vars

\* After open() and close(), and some bytes read in between, both a receive()
\* and a send() have failed with the not-open error.
C14_Witness ==
    /\ ser = "closed"
    /\ pos > 0
    /\ sendLog # <<>> /\ Last(sendLog).out = "Serial port is not open"
    /\ results # <<>> /\ Last(results).msg = "Serial port is not open"

\* C15: a receive() call that reads a command byte other than 0xC8, or a final
\* byte other than 0x55, ends with a framing error and no frame; the port is
\* open after it, and the send() or receive() that follows does not fail with
\* the not-open error.
C15_StaysOpen ==
    [][/\ (pc[0] = "r_cmd" /\ pos' = pos + 1 /\ stream[pos'] # CMD_BYTE)
            => /\ Len(results') = Len(results) + 1
               /\ Last(results').kind = "error"
               /\ Last(results').msg = "Invalid CMD byte"
       /\ (pc[0] = "r_tail" /\ pos' = pos + 1 /\ stream[pos'] # TAIL_BYTE)
            => /\ Len(results') = Len(results) + 1
               /\ Last(results').kind = "error"
               /\ Last(results').msg = "Invalid tail byte"
       /\ (results' # results /\ Last(results').msg \in FramingErrors)
            => ser' = "open"
       /\ (lastRet.out \in FramingErrors /\ lastRet' # lastRet
                /\ lastRet'.op \in {"send", "receive"})
            => lastRet'.out # "Serial port is not open"]_vars

\* A call has failed on a wrong tail byte, the next call has returned the
\* frame that follows, and a send() has then written its frame.
C15_Witness ==
    /\ Len(results) >= 2
    /\ results[1].msg = "Invalid tail byte" /\ ~results[1].empty
    /\ results[2].kind = "frame"
    /\ lastRet = [op |-> "send", out |-> "ok"]


\* Thread t is inside receive(), at one of its transport reads.
InReceive(t) == pc[t] \in {"r_sync", "r_cmd", "r_idl", "r_idh", "r_data", "r_tail"}

\* C16: two receive() calls are never in progress at once on one session:
\* while a worker is at a read of receive(), the foreground caller is not.
C16_Claim == \A w \in Workers : ~(InReceive(0) /\ InReceive(w))


\* C17: send() writes its frame atomically: once the concurrent callers'
\* writes are over, the bytes the transport has taken are a concatenation of
\* whole frames, each one a frame given to ser.write.
C17_Claim ==
    (\A s \in Senders : wr[s].st # "writing")
        => /\ Len(wire) % 13 = 0
           /\ \A k \in 0..((Len(wire) \div 13) - 1) :
                 \E i \in 1..Len(tx) : SubSeq(wire, 13 * k + 1, 13 * k + 13) = tx[i]


\* The session is as close() leaves it, or as __init__ left it: the port is
\* not open and no receive loop was started since.
AlreadyClosed == NotOpen /\ (closedRet \/ rx_thread = 0)

\* C18: close() on a session that is already closed, or was never opened,
\* changes nothing: from its first step to its return the port, the worker
\* fields, the read position and the written frames stay as they were, nothing
\* is delivered, the transport is not closed again, and the call returns as a
\* no-op without an error.
C18_Idempotent ==
    [][/\ (NotOpen /\ (InClose \/ InClose'))
            => UNCHANGED <<ser, rx_thread, pos, tx, wire, results, delivered>>
       /\ (NotOpen /\ InClose /\ ~InClose')
            => lastRet' = [op |-> "close", out |-> "no-op"]
       /\ (AlreadyClosed /\ (InClose \/ InClose'))
            => (rx_running' = rx_running /\ AlreadyClosed')]_vars

\* close() has returned as a no-op on a session that close() had closed.
C18_Witness ==
    /\ ser = "closed"
    /\ closedRet
    /\ pc[0] = "idle"
    /\ lastRet = [op |-> "close", out |-> "no-op"]


\* C19: every frame receive() returns has a payload of exactly 8 bytes and an
\* identifier of one byte: whatever the reads return, reads that time out
\* with fewer bytes in the middle of a frame included.
C19_Claim ==
    \A i \in 1..Len(results) :
        results[i].kind = "frame"
            => /\ Len(results[i].data) = 8
               /\ results[i].id \in 0..65535


\* The stream is back-to-back frames from its first byte to its last, and no
\* read has timed out while bytes were still to come.
FramesOnly == Len(sent) >= 1 /\ sent[1].at = 1 /\ BackToBack /\ ~paused

\* C20: on back-to-back valid frames read without a read timeout, the
\* receive loop invokes the callback once per frame, in transmission order,
\* with that frame's identifier and payload, each call of receive() having
\* consumed the 13 bytes of its frame and none past its tail: delivery i is
\* frame i, and every frame whose bytes have been consumed is delivered or is
\* in the hands of the worker that is about to invoke the callback.
C20_OrderedDelivery ==
    FramesOnly
        => /\ Len(delivered) <= Len(sent)
           /\ \A i \in 1..Len(delivered) : IsFrame(delivered[i], sent[i])
           /\ pos >= 13 * Len(delivered)
           /\ pos <= 13 * (Len(delivered) + 1)
           /\ pos = 13 * (Len(delivered) + 1) => \E w \in Workers : pc[w] = "w_cb"

\* The callback has been invoked for both frames of the stream, the second
\* one by a worker started after a close() and a new open().
C20_Witness ==
    /\ FramesOnly
    /\ Len(delivered) = 2
    /\ pos = Len(stream)
    /\ pc[1] = "dead"
    /\ IsAlive(2)

====
